---- MODULE Spec2Model ----
(***************************************************************************)
(* A model of music.py: the feature-extraction loop                        *)
(* load_and_preprocess_data, the numeric steps it applies to one           *)
(* spectrogram (standardise, fit to TIME_FRAMES frames), the array         *)
(* construction at its return, and the training run with its early-stop    *)
(* callback.                                                               *)
(*                                                                         *)
(* A spectrogram is a matrix of n_mels rows of time frames.  The code never *)
(* touches the mel axis except through mean() and std(), so the rows are   *)
(* kept as two bands: the level of the lower half of the mel bins and the  *)
(* level of the upper half, frame by frame.                                *)
(* Arithmetic is exact integer arithmetic; the input clips are chosen so   *)
(* that mean and standard deviation are whole numbers.                     *)
(***************************************************************************)
EXTENDS Integers, Sequences, FiniteSets, TLC

VARIABLES
    \* the file system under data_dir (input)
    present,      \* the genre names that have a subdirectory
    listed,       \* what os.listdir returned, one record per directory listed
    \* load_and_preprocess_data
    pc,           \* "loop" | "done" | "failed"
    pos,          \* how many pairs enumerate(GENRES) has yielded
    genre_idx,    \* the loop variable genre_idx
    genre,        \* the loop variable genre
    pending,      \* the files of the current directory not yet iterated
    features,     \* the list features
    labels,       \* the list labels
    errors,       \* the file names printed by the except clause
    consumed,     \* history: the files iterated so far, with their directory
    X,            \* the returned feature array
    y,            \* the returned one-hot label array
    \* the numeric steps on one spectrogram
    clip,         \* the decoded clip (input)
    stage,        \* "db" | "standardized" | "fitted"
    mel_spec_db,  \* the variable mel_spec_db of the try block
    fit_in,       \* history: mel_spec_db as it entered the fit step
    \* the training run
    restore_on_train_end, \* whether the installed Keras restores at train end
    train_pc,     \* "fit" | "trained" | "evaluated" | "saved"
    epoch,        \* epochs run so far
    weights,      \* the model's weights
    best,         \* EarlyStopping.best (empty: minus infinity)
    best_weights, \* EarlyStopping.best_weights (empty: None)
    wait,         \* EarlyStopping.wait
    stopped_early,\* model.stop_training
    max_seen,     \* history: the best validation accuracy observed
    evaluated,    \* the weights model.evaluate ran on
    saved         \* the weights written by model.save

loopVars == <<present, listed, pc, pos, genre_idx, genre, pending,
              features, labels, errors, consumed, X, y>>
fitVars == <<clip, stage, mel_spec_db, fit_in>>
trainVars == <<restore_on_train_end, train_pc, epoch, weights, best,
               best_weights, wait, stopped_early, max_seen, evaluated, saved>>
vars == <<loopVars, fitVars, trainVars>>

----------------------------------------------------------------------------
(* Program constants *)

GENRES == <<"blues", "classical", "country", "disco", "hiphop",
            "jazz", "metal", "pop", "reggae", "rock">>
TIME_FRAMES == 250
N_MELS == 128
EPOCHS == 100      \* model.fit(epochs=100)
PATIENCE == 10     \* EarlyStopping(patience=10)

(* Bounds of the model *)
MaxFrames == 252   \* the longest spectrogram drawn as an input
MaxFiles == 2      \* the number of files under data_dir
MaxAcc == 10       \* validation accuracy takes the levels 0..MaxAcc

GenreSet == {GENRES[k] : k \in 1..Len(GENRES)}

----------------------------------------------------------------------------
(* Floating point: the one non-finite value the code can produce *)

NaN == -(2^30)

\* Python's own float division, which raises ZeroDivisionError
FloatDivRaises_python(a, b) == b = 0

\* numpy's true division: x / 0.0 is a RuntimeWarning and a non-finite
\* value, never an exception.  The numerator is 0 whenever the divisor (a
\* standard deviation) is 0, so the value is 0/0 = NaN.
FloatDivRaises(a, b) == FALSE

FloatDiv(a, b) ==
    IF a = NaN \/ b = NaN \/ b = 0 THEN NaN ELSE a \div b

----------------------------------------------------------------------------
(* Matrices *)

\* A matrix of n_mels rows: rows[1] holds, frame by frame, the level of the
\* lower half of the mel bins, rows[2] the level of the upper half.
Frames(m) == Len(m.rows[1])
Shape(m) == <<m.n_mels, Frames(m)>>
\* a function on 1..n as the sequence of its values
AsSeq(f) == SubSeq(f, 1, Len(f))
Zeros(n) == AsSeq([i \in 1..n |-> 0])

HasNaN(m) ==
    \E r \in 1..Len(m.rows) : \E j \in 1..Frames(m) : m.rows[r][j] = NaN

\* the sum of (row[j] - mu)^p over the frames from..to, split in halves as
\* numpy's pairwise summation
RECURSIVE SumRow(_, _, _, _, _)
SumRow(row, mu, p, from, to) ==
    IF from > to THEN 0
    ELSE IF from = to
    THEN IF p = 1 THEN row[from] - mu ELSE (row[from] - mu) * (row[from] - mu)
    ELSE LET mid == (from + to) \div 2
         IN  SumRow(row, mu, p, from, mid) + SumRow(row, mu, p, mid + 1, to)

\* the number of elements, their sum, and the sum of squared deviations
Count(m) == m.n_mels * Frames(m)
Total(m) ==
    (m.n_mels \div 2)
    * (SumRow(m.rows[1], 0, 1, 1, Frames(m))
       + SumRow(m.rows[2], 0, 1, 1, Frames(m)))
TotalSq(m, mu) ==
    (m.n_mels \div 2)
    * (SumRow(m.rows[1], mu, 2, 1, Frames(m))
       + SumRow(m.rows[2], mu, 2, 1, Frames(m)))

ISqrt(v) == CHOOSE s \in 0..v : s * s <= v /\ (s + 1) * (s + 1) > v

\* ndarray.mean() and ndarray.std() over all elements
Mean(m) == Total(m) \div Count(m)
Std(m) == ISqrt(TotalSq(m, Mean(m)) \div Count(m))

----------------------------------------------------------------------------
(* The steps of the try block on one decoded clip *)

\* The clips drawn as inputs: the number of frames librosa produces for the
\* clip's duration (at least one for any decodable file) and the kind of
\* its log-mel spectrogram.
ClipKinds == {"silent", "tilt", "step"}
Clips == [frames : 1..MaxFrames, kind : ClipKinds]

\* Lines 32-42: librosa.load, melspectrogram and power_to_db(ref=np.max).
\* The result is in decibels relative to the clip's peak, so its maximum is
\* 0.  A silent clip has power 0 everywhere, which power_to_db maps to 0 dB
\* in every cell.  "tilt": the lower mel bins are 20 dB under the upper ones
\* in every frame.  "step": the first half of the clip is 40 dB under the
\* second half (in the middle frame of an odd count, only the lower bins).
Db(c, r, j) ==
    CASE c.kind = "silent" -> 0
      [] c.kind = "tilt" -> IF r = 1 THEN -20 ELSE 0
      [] c.kind = "step" ->
            IF 2 * j <= c.frames \/ (2 * j = c.frames + 1 /\ r = 1)
            THEN -40 ELSE 0

MelSpecDb(c) ==
    LET Row(r) == AsSeq([j \in 1..c.frames |-> Db(c, r, j)])
    IN  [n_mels |-> N_MELS, rows |-> <<Row(1), Row(2)>>]

\* scaling without subtracting the mean
Standardize_noCentre(m) ==
    LET sd == Std(m)
        Row(r) == AsSeq([j \in 1..Frames(m) |-> FloatDiv(m.rows[r][j], sd)])
    IN  [m EXCEPT !.rows = <<Row(1), Row(2)>>]

\* Line 44: (mel_spec_db - mel_spec_db.mean()) / mel_spec_db.std()
Standardize(m) ==
    LET mu == Mean(m)
        sd == Std(m)
        Row(r) ==
            AsSeq([j \in 1..Frames(m) |-> FloatDiv(m.rows[r][j] - mu, sd)])
    IN  [m EXCEPT !.rows = <<Row(1), Row(2)>>]

\* Line 47: m[:, :n]
SliceFrames(m, n) ==
    [m EXCEPT !.rows = <<SubSeq(m.rows[1], 1, n), SubSeq(m.rows[2], 1, n)>>]

\* padding before the first frame: ((0, 0), (pad_width, 0))
NpPad_left(m, pad_width) ==
    [m EXCEPT !.rows = <<Zeros(pad_width) \o m.rows[1],
                         Zeros(pad_width) \o m.rows[2]>>]

\* Line 50: np.pad(m, ((0, 0), (0, pad_width)), mode='constant')
NpPad(m, pad_width) ==
    [m EXCEPT !.rows = <<m.rows[1] \o Zeros(pad_width),
                         m.rows[2] \o Zeros(pad_width)>>]

\* a fit that pads only below TIME_FRAMES - 1 frames
FitFrames_noPadByOne(m) ==
    IF Frames(m) > TIME_FRAMES
    THEN SliceFrames(m, TIME_FRAMES)
    ELSE IF Frames(m) < TIME_FRAMES - 1
    THEN NpPad(m, TIME_FRAMES - Frames(m))
    ELSE m

\* Lines 46-50: fit to TIME_FRAMES frames
FitFrames(m) ==
    IF Frames(m) > TIME_FRAMES
    THEN SliceFrames(m, TIME_FRAMES)
    ELSE LET pad_width == TIME_FRAMES - Frames(m)
         IN  NpPad(m, pad_width)

\* Lines 44-50 on the spectrogram of a decoded clip
ExtractFeature(c) == FitFrames(Standardize(MelSpecDb(c)))


----------------------------------------------------------------------------
(* The numeric steps, one at a time, on any clip: the specification under  *)
(* which the claims about standardisation and fitting are checked.         *)

StandardizeStep ==
    /\ stage = "db"
    /\ ~FloatDivRaises(0, Std(mel_spec_db))
    /\ mel_spec_db' = Standardize(mel_spec_db)
    /\ stage' = "standardized"
    /\ UNCHANGED <<clip, fit_in, loopVars, trainVars>>

FitStep ==
    /\ stage = "standardized"
    /\ fit_in' = mel_spec_db
    /\ mel_spec_db' = FitFrames(mel_spec_db)
    /\ stage' = "fitted"
    /\ UNCHANGED <<clip, loopVars, trainVars>>

FitNext == StandardizeStep \/ FitStep

----------------------------------------------------------------------------
(* The files under data_dir *)

\* File names are sequences of characters.
DotWav == <<".", "w", "a", "v">>
NameWav == <<"a">> \o DotWav
NameBak == <<"a">> \o DotWav \o <<".", "b", "a", "k">>
NameNoDot == <<"a", "w", "a", "v">>

\* suffix in s
EndsWith_contains(s, suffix) ==
    \E i \in 1..Len(s) :
        /\ i + Len(suffix) - 1 <= Len(s)
        /\ SubSeq(s, i, i + Len(suffix) - 1) = suffix

\* str.endswith
EndsWith(s, suffix) ==
    /\ Len(s) >= Len(suffix)
    /\ SubSeq(s, Len(s) - Len(suffix) + 1, Len(s)) = suffix

\* A file: its name, whether librosa can decode it, and the clip it holds.
LoopClips ==
    {[frames |-> TIME_FRAMES - 1, kind |-> "step"],
     [frames |-> TIME_FRAMES, kind |-> "silent"],
     [frames |-> TIME_FRAMES + 1, kind |-> "step"]}
NoClip == [frames |-> 1, kind |-> "silent"]

\* ExtractFeature tabulated over the clips the files hold: the feature is
\* a function of the clip alone
FeatureTable ==
    {[clip |-> c, feature |-> ExtractFeature(c)] : c \in LoopClips}
FeatureOf(c) == (CHOOSE e \in FeatureTable : e.clip = c).feature

Files ==
    {[name |-> NameWav, decodes |-> TRUE, clip |-> c] : c \in LoopClips}
    \cup {[name |-> NameWav, decodes |-> FALSE, clip |-> NoClip],
          [name |-> NameBak, decodes |-> TRUE,
           clip |-> [frames |-> TIME_FRAMES, kind |-> "silent"]],
          [name |-> NameNoDot, decodes |-> FALSE, clip |-> NoClip]}

\* The directory listings of at most n files.
Listings(n) == UNION {[1..k -> Files] : k \in 0..n}

\* The layouts of data_dir drawn as inputs: every genre has its
\* subdirectory, or only two have.
DirLayouts ==
    {S \in SUBSET GenreSet : Cardinality(S) \in {2, Len(GENRES)}}

RECURSIVE NumListed(_, _)
NumListed(ls, k) ==
    IF k = 0 THEN 0 ELSE Len(ls[k].files) + NumListed(ls, k - 1)

----------------------------------------------------------------------------
(* load_and_preprocess_data *)

\* enumerate(GENRES, 1)
Enumerate_fromOne(k) == [genre_idx |-> k, genre |-> GENRES[k]]

\* Line 25: enumerate(GENRES), the k-th pair (k from 1)
Enumerate(k) == [genre_idx |-> k - 1, genre |-> GENRES[k]]

\* a listing that takes a missing directory for an empty one
ListDirRaises_never(dir) == FALSE

\* Line 27: os.listdir raises FileNotFoundError for a missing directory
ListDirRaises(dir) == dir \notin present

\* Lines 32-50: whether the try block raises on a file
TryRaises(f) ==
    \/ ~f.decodes
    \/ FloatDivRaises(0, Std(MelSpecDb(f.clip)))

\* np.max over a list of labels
RECURSIVE MaxOf(_, _)
MaxOf(ls, k) ==
    IF k = 1 THEN ls[1]
    ELSE LET m == MaxOf(ls, k - 1) IN IF ls[k] > m THEN ls[k] ELSE m

\* Line 58: keras.utils.to_categorical(labels), num_classes not given
ToCategorical(ls) ==
    LET num_classes == MaxOf(ls, Len(ls)) + 1
    IN  [i \in 1..Len(ls) |->
            [j \in 1..num_classes |-> IF j - 1 = ls[i] THEN 1 ELSE 0]]

\* Line 58: np.array(features)[..., np.newaxis]
NpArray(fs) ==
    [shape |-> IF fs = <<>> THEN <<0, 1>>
               ELSE <<Len(fs)>> \o Shape(fs[1]) \o <<1>>,
     data |-> fs]

NoArray == [shape |-> <<>>, data |-> <<>>]

\* Lines 143-144: np.argmax(row), the first position of the maximum, from 0
ArgMax(row) ==
    (CHOOSE j \in 1..Len(row) :
        /\ \A k \in 1..Len(row) : row[k] <= row[j]
        /\ \A k \in 1..(j - 1) : row[k] < row[j]) - 1

\* Line 149: classification_report(..., target_names=GENRES)
TargetNames == GENRES

\* Lines 25-27: the files of one directory are exhausted (or the loop
\* starts); the for loop takes the next pair of enumerate(GENRES) and
\* os.listdir returns the files of its directory
ListDir ==
    /\ pc = "loop"
    /\ pending = <<>>
    /\ pos < Len(GENRES)
    /\ LET pair == Enumerate(pos + 1)
       IN  /\ ~ListDirRaises(pair.genre)
           /\ genre_idx' = pair.genre_idx
           /\ genre' = pair.genre
           /\ \E files \in
                    Listings(MaxFiles - NumListed(listed, Len(listed))) :
                 /\ listed' = Append(listed, [dir |-> pair.genre,
                                              files |-> files])
                 /\ pending' = files
    /\ pos' = pos + 1
    /\ UNCHANGED <<present, pc, features, labels, errors, consumed, X, y,
                   fitVars, trainVars>>

\* Line 27: os.listdir raises, outside the try block
ListDirFails ==
    /\ pc = "loop"
    /\ pending = <<>>
    /\ pos < Len(GENRES)
    /\ LET pair == Enumerate(pos + 1)
       IN  /\ ListDirRaises(pair.genre)
           /\ genre_idx' = pair.genre_idx
           /\ genre' = pair.genre
    /\ pos' = pos + 1
    /\ pc' = "failed"
    /\ UNCHANGED <<present, listed, pending, features, labels, errors,
                   consumed, X, y,
                   fitVars, trainVars>>


\* Line 28: a file whose name does not end in '.wav'
SkipFile ==
    /\ pc = "loop"
    /\ pending # <<>>
    /\ ~EndsWith(Head(pending).name, DotWav)
    /\ pending' = Tail(pending)
    /\ consumed' = Append(consumed, [dir |-> genre, file |-> Head(pending)])
    /\ UNCHANGED <<present, listed, pc, pos, genre_idx, genre, features,
                   labels, errors, X, y, fitVars, trainVars>>

\* Lines 29-53: the try block runs to its end
ProcessFile ==
    /\ pc = "loop"
    /\ pending # <<>>
    /\ EndsWith(Head(pending).name, DotWav)
    /\ ~TryRaises(Head(pending))
    /\ features' = Append(features, FeatureOf(Head(pending).clip))
    /\ labels' = Append(labels, genre_idx)
    /\ pending' = Tail(pending)
    /\ consumed' = Append(consumed, [dir |-> genre, file |-> Head(pending)])
    /\ UNCHANGED <<present, listed, pc, pos, genre_idx, genre, errors, X, y,
                   fitVars, trainVars>>

\* an except clause that also appends the label
ProcessFileError_placeholder ==
    /\ pc = "loop"
    /\ pending # <<>>
    /\ EndsWith(Head(pending).name, DotWav)
    /\ TryRaises(Head(pending))
    /\ errors' = Append(errors, Head(pending).name)
    /\ labels' = Append(labels, genre_idx)
    /\ pending' = Tail(pending)
    /\ consumed' = Append(consumed, [dir |-> genre, file |-> Head(pending)])
    /\ UNCHANGED <<present, listed, pc, pos, genre_idx, genre, features, X, y,
                   fitVars, trainVars>>

\* Lines 55-56: the try block raises; the except clause prints the name
ProcessFileError ==
    /\ pc = "loop"
    /\ pending # <<>>
    /\ EndsWith(Head(pending).name, DotWav)
    /\ TryRaises(Head(pending))
    /\ errors' = Append(errors, Head(pending).name)
    /\ pending' = Tail(pending)
    /\ consumed' = Append(consumed, [dir |-> genre, file |-> Head(pending)])
    /\ UNCHANGED <<present, listed, pc, pos, genre_idx, genre, features,
                   labels, X, y,
                   fitVars, trainVars>>

\* Line 58: the return statement
Return ==
    /\ pc = "loop"
    /\ pending = <<>>
    /\ pos = Len(GENRES)
    /\ labels # <<>>
    /\ X' = NpArray(features)
    /\ y' = ToCategorical(labels)
    /\ pc' = "done"
    /\ UNCHANGED <<present, listed, pos, genre_idx, genre, pending,
                   features, labels,
                   errors, consumed,
                   fitVars, trainVars>>

\* Line 58: to_categorical takes np.max of the labels, which raises
\* ValueError on an empty list
ReturnFails ==
    /\ pc = "loop"
    /\ pending = <<>>
    /\ pos = Len(GENRES)
    /\ labels = <<>>
    /\ pc' = "failed"
    /\ UNCHANGED <<present, listed, pos, genre_idx, genre, pending,
                   features, labels,
                   errors, consumed, X, y,
                   fitVars, trainVars>>

LoopNext ==
    \/ ListDir
    \/ ListDirFails
    \/ SkipFile
    \/ ProcessFile
    \/ ProcessFileError
    \/ Return
    \/ ReturnFails

----------------------------------------------------------------------------
(* Training: model.fit with the EarlyStopping callback, then evaluate and  *)
(* save.  Weights are named by the epoch that produced them and the        *)
(* validation accuracy measured at the end of that epoch.                  *)

InitialWeights == [epoch |-> 0, val_acc |-> 0]

\* mode 'min', as for a loss
IsImprovement_min(current, b) == \A v \in b : current < v

\* EarlyStopping(monitor='val_accuracy'): mode 'auto' on an accuracy is
\* np.greater with min_delta 0; best starts at minus infinity
IsImprovement(current, b) == \A v \in b : current > v

Larger(a, b) == IF a > b THEN a ELSE b

\* Lines 129-134: one epoch of model.fit, its validation, and
\* EarlyStopping.on_epoch_end (restore_best_weights=True)
Epoch ==
    /\ train_pc = "fit"
    /\ epoch < EPOCHS
    /\ ~stopped_early
    /\ \E acc \in 0..MaxAcc :
          LET w == [epoch |-> epoch + 1, val_acc |-> acc]
              improved == IsImprovement(acc, best)
              newWait == IF improved THEN 0 ELSE wait + 1
              newBest == IF improved THEN {w} ELSE best_weights
              stop == newWait >= PATIENCE /\ epoch > 0
          IN  /\ max_seen' = Larger(max_seen, acc)
              /\ best' = IF improved THEN {acc} ELSE best
              /\ best_weights' = newBest
              /\ wait' = newWait
              /\ stopped_early' = stop
              /\ weights' = IF stop /\ newBest # {}
                            THEN CHOOSE b \in newBest : TRUE
                            ELSE w
    /\ epoch' = epoch + 1
    /\ UNCHANGED <<restore_on_train_end, train_pc, evaluated, saved,
                   loopVars, fitVars>>

\* Line 129: model.fit returns, after EarlyStopping.on_train_end.  Keras 3
\* sets the best weights there whenever it has them; tf.keras 2 restores
\* only in on_epoch_end, when it stops the training.
TrainEnd ==
    /\ train_pc = "fit"
    /\ epoch = EPOCHS \/ stopped_early
    /\ weights' = IF restore_on_train_end /\ best_weights # {}
                  THEN CHOOSE b \in best_weights : TRUE
                  ELSE weights
    /\ train_pc' = "trained"
    /\ UNCHANGED <<restore_on_train_end, epoch, best, best_weights, wait,
                   stopped_early, max_seen, evaluated, saved,
                   loopVars, fitVars>>

\* Line 137: model.evaluate(X_test, y_test)
Evaluate ==
    /\ train_pc = "trained"
    /\ evaluated' = weights
    /\ train_pc' = "evaluated"
    /\ UNCHANGED <<restore_on_train_end, epoch, weights, best, best_weights,
                   wait, stopped_early, max_seen, saved,
                   loopVars, fitVars>>

\* Line 152: model.save
Save ==
    /\ train_pc = "evaluated"
    /\ saved' = weights
    /\ train_pc' = "saved"
    /\ UNCHANGED <<restore_on_train_end, epoch, weights, best, best_weights,
                   wait, stopped_early, max_seen, evaluated,
                   loopVars, fitVars>>

TrainNext == Epoch \/ TrainEnd \/ Evaluate \/ Save

----------------------------------------------------------------------------
(* Specifications *)

NoMatrix == [n_mels |-> 0, rows |-> <<<<>>, <<>>>>]

\* load_and_preprocess_data over the layouts and files drawn as inputs
Init ==
    /\ present \in DirLayouts
    /\ listed = <<>>
    /\ pc = "loop"
    /\ pos = 0
    /\ genre_idx = 0
    /\ genre = ""
    /\ pending = <<>>
    /\ features = <<>>
    /\ labels = <<>>
    /\ errors = <<>>
    /\ consumed = <<>>
    /\ X = NoArray
    /\ y = <<>>
    /\ clip = NoClip
    /\ stage = "idle"
    /\ mel_spec_db = NoMatrix
    /\ fit_in = NoMatrix
    /\ restore_on_train_end = FALSE
    /\ train_pc = "idle"
    /\ epoch = 0
    /\ weights = InitialWeights
    /\ best = {}
    /\ best_weights = {}
    /\ wait = 0
    /\ stopped_early = FALSE
    /\ max_seen = 0
    /\ evaluated = InitialWeights
    /\ saved = InitialWeights

Next == LoopNext

Spec == Init /\ [][Next]_vars

\* the numeric steps on every clip of up to MaxFrames frames
FitInit ==
    /\ present = GenreSet
    /\ listed = <<>>
    /\ pc = "idle"
    /\ pos = 0
    /\ genre_idx = 0
    /\ genre = ""
    /\ pending = <<>>
    /\ features = <<>>
    /\ labels = <<>>
    /\ errors = <<>>
    /\ consumed = <<>>
    /\ X = NoArray
    /\ y = <<>>
    /\ clip \in Clips
    /\ stage = "db"
    /\ mel_spec_db = MelSpecDb(clip)
    /\ fit_in = NoMatrix
    /\ restore_on_train_end = FALSE
    /\ train_pc = "idle"
    /\ epoch = 0
    /\ weights = InitialWeights
    /\ best = {}
    /\ best_weights = {}
    /\ wait = 0
    /\ stopped_early = FALSE
    /\ max_seen = 0
    /\ evaluated = InitialWeights
    /\ saved = InitialWeights

SpecFit == FitInit /\ [][FitNext]_vars

\* the training run, under either behaviour of the installed Keras
TrainInit ==
    /\ present = GenreSet
    /\ listed = <<>>
    /\ pc = "idle"
    /\ pos = 0
    /\ genre_idx = 0
    /\ genre = ""
    /\ pending = <<>>
    /\ features = <<>>
    /\ labels = <<>>
    /\ errors = <<>>
    /\ consumed = <<>>
    /\ X = NoArray
    /\ y = <<>>
    /\ clip = NoClip
    /\ stage = "idle"
    /\ mel_spec_db = NoMatrix
    /\ fit_in = NoMatrix
    /\ restore_on_train_end \in BOOLEAN
    /\ train_pc = "fit"
    /\ epoch = 0
    /\ weights = InitialWeights
    /\ best = {}
    /\ best_weights = {}
    /\ wait = 0
    /\ stopped_early = FALSE
    /\ max_seen = 0
    /\ evaluated = InitialWeights
    /\ saved = InitialWeights

SpecTrain == TrainInit /\ [][TrainNext]_vars

----------------------------------------------------------------------------
(* What the claims speak of *)

\* a name that is some prefix followed by '.wav'
HasWavSuffix(name) ==
    \E k \in 0..Len(name) : name = SubSeq(name, 1, k) \o DotWav

\* a file that is a .wav file librosa decodes, and one it does not
IsGood(e) == HasWavSuffix(e.file.name) /\ e.file.decodes
IsBad(e) == HasWavSuffix(e.file.name) /\ ~e.file.decodes

\* the files of the directories listed so far, in the order of iteration
RECURSIVE Flatten(_, _)
Flatten(ls, k) ==
    IF k = 0 THEN <<>>
    ELSE Flatten(ls, k - 1)
         \o [i \in 1..Len(ls[k].files) |->
                [dir |-> ls[k].dir, file |-> ls[k].files[i]]]

\* the files that should have become samples, among those iterated
Good == SelectSeq(consumed, IsGood)
Bad == SelectSeq(consumed, IsBad)

\* the position of a genre name in GENRES, from 0
PositionOf(name) == (CHOOSE k \in 1..Len(GENRES) : GENRES[k] = name) - 1

\* the clips whose log-mel spectrogram has zero standard deviation
\* (enumerated once)
ZeroStdClips == {d : d \in {c \in Clips : Std(MelSpecDb(c)) = 0}}
Silent(c) == c \in ZeroStdClips

\* C1: every feature appended has N_MELS rows of exactly TIME_FRAMES frames,
\* whatever the durations of the clips, and the returned array has shape
\* (n_samples, N_MELS, TIME_FRAMES, 1).
C1_FixedShape ==
    /\ \A i \in 1..Len(features) :
          /\ features[i].n_mels = N_MELS
          /\ \A r \in 1..2 : Len(features[i].rows[r]) = TIME_FRAMES
    /\ pc = "done" => X.shape = <<Len(features), N_MELS, TIME_FRAMES, 1>>

C1_Witness ==
    /\ pc = "done"
    /\ Len(X.data) = 2
    /\ \E i, j \in 1..Len(Good) :
          /\ Good[i].file.clip.frames < TIME_FRAMES
          /\ Good[j].file.clip.frames > TIME_FRAMES

\* C2: at every step of the loop and at the return there are as many labels
\* as features, one pair per file that was processed without an exception;
\* a file that raised added neither.
C2_LabelsMatchFeatures ==
    /\ Len(labels) = Len(features)
    /\ Len(features) = Len(Good)
    /\ pc = "done" => X.shape[1] = Len(Good) /\ Len(y) = Len(Good)

C2_Witness ==
    /\ pc = "done"
    /\ Len(Bad) = 1
    /\ Len(y) = Len(consumed) - 1

\* C3: with all ten subdirectories present, what is returned is exactly one
\* sample per decodable .wav file, in order; every directory was listed and
\* every file iterated, whichever files raised; the messages printed are
\* those of the .wav files that raised; and the only failure is the empty
\* dataset at the return.
C3_OneSamplePerGoodFile ==
    present = GenreSet =>
        /\ pc = "done" =>
              /\ Len(listed) = Len(GENRES)
              /\ consumed = Flatten(listed, Len(listed))
              /\ Len(X.data) = Len(Good)
              /\ \A i \in 1..Len(Good) :
                    X.data[i] = FeatureOf(Good[i].file.clip)
              /\ errors = [i \in 1..Len(Bad) |-> Bad[i].file.name]
        /\ pc = "failed" =>
              /\ Len(listed) = Len(GENRES)
              /\ consumed = Flatten(listed, Len(listed))
              /\ Good = <<>>

C3_Witness ==
    /\ pc = "done"
    /\ present = GenreSet
    /\ \E i, j \in 1..Len(consumed) :
          /\ i < j
          /\ IsBad(consumed[i])
          /\ IsGood(consumed[j])
          /\ consumed[i].dir # consumed[j].dir

\* C4: the returned label array has one column per genre of GENRES.
C4_TenColumns ==
    pc = "done" => \A i \in 1..Len(y) : Len(y[i]) = Len(GENRES)

\* C5: the label of every sample is the position in GENRES of the directory
\* its file was read from, in the list and in the returned one-hot row, and
\* target_names names that directory at that position.
C5_LabelIsGenrePosition ==
    /\ \A i \in 1..Len(labels) :
          i <= Len(Good) => labels[i] = PositionOf(Good[i].dir)
    /\ pc = "done" =>
          \A i \in 1..Len(y) :
              /\ i <= Len(Good)
              /\ ArgMax(y[i]) = PositionOf(Good[i].dir)
              /\ ArgMax(y[i]) + 1 \in DOMAIN TargetNames
              /\ TargetNames[ArgMax(y[i]) + 1] = Good[i].dir
              /\ \A j \in 1..Len(y[i]) :
                    y[i][j] = IF j - 1 = PositionOf(Good[i].dir) THEN 1 ELSE 0

C5_Witness ==
    /\ pc = "done"
    /\ Len(y) = 1
    /\ Len(Bad) = 1
    /\ Good[1].dir = "jazz"
    /\ Bad[1].dir = "blues"

\* C8 as claimed: with subdirectories for only two genres, each holding
\* .wav files that process without exception, extraction completes and the
\* label array has two columns.
C8_TwoGenresComplete ==
    (/\ Cardinality(present) = 2
     /\ \A i \in 1..Len(consumed) : IsGood(consumed[i]))
        => /\ pc # "failed"
           /\ pc = "done" => \A i \in 1..Len(y) : Len(y[i]) = 2

\* C8 amended: with fewer than ten subdirectories (only two, say) the
\* function never returns: os.listdir raises at the first genre of GENRES
\* that has none.
C8_MissingDirFails ==
    Cardinality(present) < Len(GENRES) =>
        /\ pc # "done"
        /\ X = NoArray /\ y = <<>>
        /\ \A k \in 1..Len(listed) : listed[k].dir \in present
        /\ pc = "failed" =>
              /\ genre \notin present
              /\ \A k \in 1..(pos - 1) : GENRES[k] \in present

C8_Witness ==
    /\ Cardinality(present) = 2
    /\ pc = "failed"
    /\ Len(features) = 2
    /\ Len(listed) = 2
    /\ \A k \in 1..2 : Len(listed[k].files) = 1

\* C10: a decodable .wav file whose spectrogram has zero standard deviation
\* is not reported and not skipped: it yields one feature, whose frames are
\* NaN, and its label, and both are in the returned dataset.
C10_SilentClipKept ==
    /\ Len(features) = Len(Good)
    /\ Len(labels) = Len(Good)
    /\ Len(errors) = Len(Bad)
    /\ \A i \in 1..Len(Good) :
          (Silent(Good[i].file.clip) /\ i <= Len(features)) =>
              /\ \A r \in 1..2 :
                    \A j \in 1..Good[i].file.clip.frames :
                        j <= TIME_FRAMES => features[i].rows[r][j] = NaN
              /\ labels[i] = PositionOf(Good[i].dir)
    /\ pc = "done" => X.data = features /\ X.shape[1] = Len(Good)

C10_Witness ==
    /\ pc = "done"
    /\ errors = <<>>
    /\ \E i \in 1..Len(Good) : Silent(Good[i].file.clip) /\ HasNaN(X.data[i])

\* mean 0 and standard deviation 1 in exact arithmetic: the sum is 0, and
\* Count * sum of squares - sum^2 = Count^2
MeanIsZero(m) == ~HasNaN(m) /\ Total(m) = 0
StdIsOne(m) ==
    /\ ~HasNaN(m)
    /\ Count(m) * TotalSq(m, 0) - Total(m) * Total(m) = Count(m) * Count(m)

NonDegenerate(c) == ~Silent(c)

\* C6 as claimed: every non-degenerate feature, as returned (after the fit
\* to TIME_FRAMES frames), has mean 0 and standard deviation 1.
C6_FittedIsStandard ==
    (stage = "fitted" /\ NonDegenerate(clip)) =>
        MeanIsZero(mel_spec_db) /\ StdIsOne(mel_spec_db)

\* C6 amended: a non-degenerate spectrogram has mean 0 and standard
\* deviation 1 right after standardisation; after the fit this still holds
\* when it had exactly TIME_FRAMES frames; with n < TIME_FRAMES frames the
\* mean stays 0 and the variance is n / TIME_FRAMES; with more, the feature
\* is the first TIME_FRAMES standardised frames, whatever their statistics.
C6_StandardBeforeFit ==
    NonDegenerate(clip) =>
        /\ stage = "standardized" =>
              MeanIsZero(mel_spec_db) /\ StdIsOne(mel_spec_db)
        /\ (stage = "fitted" /\ clip.frames = TIME_FRAMES) =>
              MeanIsZero(mel_spec_db) /\ StdIsOne(mel_spec_db)
        /\ (stage = "fitted" /\ clip.frames < TIME_FRAMES) =>
              /\ MeanIsZero(mel_spec_db)
              /\ TIME_FRAMES * TotalSq(mel_spec_db, 0)
                    = clip.frames * Count(mel_spec_db)
        /\ (stage = "fitted" /\ clip.frames > TIME_FRAMES) =>
              /\ MeanIsZero(fit_in) /\ StdIsOne(fit_in)
              /\ mel_spec_db = SliceFrames(fit_in, TIME_FRAMES)

C6_Witness ==
    /\ stage = "fitted"
    /\ clip = [frames |-> TIME_FRAMES, kind |-> "step"]
    /\ MeanIsZero(mel_spec_db)

\* C7: the fit step keeps the first TIME_FRAMES frames of a longer
\* spectrogram, appends all-zero frames on the right of a shorter one, and
\* leaves one of exactly TIME_FRAMES frames as it is.
C7_FitRelation ==
    stage = "fitted" =>
        /\ mel_spec_db.n_mels = fit_in.n_mels
        /\ \A r \in 1..2 :
              /\ Len(mel_spec_db.rows[r]) = TIME_FRAMES
              /\ \A j \in 1..TIME_FRAMES :
                    mel_spec_db.rows[r][j] =
                        IF j <= Frames(fit_in) THEN fit_in.rows[r][j] ELSE 0
        /\ Frames(fit_in) = TIME_FRAMES => mel_spec_db = fit_in

C7_Witness ==
    /\ stage = "fitted"
    /\ Frames(fit_in) = TIME_FRAMES - 2
    /\ clip.kind = "step"
    /\ mel_spec_db.rows[1][TIME_FRAMES] = 0
    /\ mel_spec_db.rows[1][1] = fit_in.rows[1][1]

\* C9 as claimed: training runs at most EPOCHS epochs and, however it ends,
\* the weights evaluated and saved are those of the epoch with the best
\* validation accuracy observed.
C9_BestWeightsSaved ==
    /\ epoch <= EPOCHS
    /\ train_pc = "saved" =>
          /\ saved.val_acc = max_seen
          /\ evaluated = saved

\* C9 amended: training runs at most EPOCHS epochs; when early stopping
\* ends it, the weights evaluated and saved are those of the epoch with the
\* best validation accuracy observed; when the epoch limit ends it, they
\* are those weights only if Keras restores at the end of training, and
\* the last epoch's otherwise.
C9_BestWeightsOnEarlyStop ==
    /\ epoch <= EPOCHS
    /\ train_pc = "saved" =>
          /\ evaluated = saved
          /\ (stopped_early \/ restore_on_train_end) =>
                /\ saved.val_acc = max_seen
                /\ \A v \in best : v = max_seen
                /\ saved \in best_weights
          /\ ~(stopped_early \/ restore_on_train_end) =>
                saved.epoch = EPOCHS

C9_Witness ==
    /\ train_pc = "saved"
    /\ stopped_early
    /\ ~restore_on_train_end
    /\ epoch < EPOCHS
    /\ saved.epoch = epoch - PATIENCE
    /\ saved.val_acc = MaxAcc

====
